---------------------------- MODULE Spec2Model ----------------------------
(***************************************************************************)
(* Model of csv_to_app_topology.py: CSV acquisition and ingestion, the     *)
(* application model, the paged inventory fetch, member matching and the   *)
(* create-or-update reconciliation of topology definitions.                *)
(*                                                                         *)
(* Strings that the program only compares are TLA+ strings.  An IP field   *)
(* of the CSV is a sequence of tokens: a token of Addrs is a substring the *)
(* dotted-quad regex matches, any other token is text between matches.     *)
(* A Python str holding comma-joined addresses is [kind |-> "str", parts]; *)
(* a Python list of addresses is [kind |-> "list", parts].                 *)
(***************************************************************************)
EXTENDS Naturals, Sequences, FiniteSets, TLC

VARIABLES
    pc,            \* position of the run
    match_ip,      \* MATCH_IP
    prefix,        \* APP_PREFIX, None until main reads it
    field_keys,    \* keys of ENTITY_FIELD_MAP (DifCsvReader.entity_headers)
    csv_data,      \* list of row dicts handed to parse_csv_into_apps
    row_count,     \* parse_csv_into_apps: row_count
    app_dict,      \* parse_csv_into_apps: app_dict, in insertion order
    parsed_apps,   \* app_dict as parse_csv_into_apps returned it
    turbo_vms,     \* list returned by get_turbo_vms
    mpos,          \* match_apps_to_turbo_vms: <<app index, member index>>
    current_apps,  \* make_apps_thru_atm: existing definitions as fetched
    definitions,   \* topology definitions the platform holds, as listed
    ai,            \* make_apps_thru_atm: index of the next application
    requests,      \* writes issued to the platform, in order
    \* get_csv_data and DifCsvReader
    file_downloaded, \* reader.file_downloaded
    outcome,       \* how the last download_csv_data call ended
    csv_rows,      \* rows of the downloaded file, as csv.DictReader yields them
    data,          \* read_csv: data
    ri,            \* read_csv: index of the next row of csv_rows
    \* get_turbo_vms
    details,       \* the platform's detail record of each listed identifier
    uuids,         \* get_turbo_vms: uuids
    step,          \* get_turbo_vms: step
    start,         \* get_turbo_vms: start
    end,           \* get_turbo_vms: end
    vm_list,       \* get_turbo_vms: vm_list
    window,        \* get_multiple_vm_details: uuids (the uuid_subset)
    wi,            \* get_individual_vm_details: position in the window
    calls          \* the detail requests made, window by window

cfgVars == <<match_ip, prefix, field_keys>>
parseVars == <<csv_data, row_count, app_dict, parsed_apps>>
matchVars == <<turbo_vms, mpos>>
topoVars == <<current_apps, definitions, ai, requests>>

csvVars == <<file_downloaded, outcome, csv_rows, data, ri>>
fetchVars == <<details, uuids, step, start, end, vm_list, window, wi, calls>>

vars == <<pc, cfgVars, parseVars, matchVars, topoVars, csvVars, fetchVars>>

-----------------------------------------------------------------------------
(* Bounds and universes *)

MaxRows == 2
MaxVMs == 2
MaxDefs == 2
MaxIds == 4
MaxStep == 2

NoneVal == "None"

Addrs == {"10.0.0.1", "10.0.0.2", "10.0.0.3"}
CsvAppNames == {"AppA", "AppB"}
CsvEntityNames == {"vm1", "VM1"}
CsvIpFields == {<< >>,
                <<"10.0.0.1", "10.0.0.2">>,
                <<"10.0.0.1", " ; ", "10.0.0.2">>,
                <<"10.0.0.2", "10.0.0.1">>}
\* the IP fields of the rows of a run that goes on to match
RunIpFields == {<< >>, <<"10.0.0.1", "10.0.0.2">>}
Prefixes == {"", "T-"}
\* (displayName, ipAddress) of the VMs the platform may hold: a name that
\* differs from the CSV names by case only, with and without a CSV address,
\* and a foreign name with a CSV address
VmRecords == {<<"VM1", <<"10.0.0.3">>>>,
              <<"VM1", <<"10.0.0.1", "10.0.0.3">>>>,
              <<"vm2", <<"10.0.0.1", "10.0.0.3">>>>}
VmUuids == <<"u1", "u2", "u3", "u4", "u5", "u6">>
DefUuids == <<"d1", "d2", "d3", "d4">>

\* str.lower() on the names of the universe
Lower(s) == CASE s = "VM1" -> "vm1"
              [] OTHER -> s

Range(s) == {s[i] : i \in 1..Len(s)}

SeqsUpTo(S, n) == UNION {[1..k -> S] : k \in 0..n}

-----------------------------------------------------------------------------
(* UserDefinedApp *)

\* re.findall(ip_regex, ips) on a str
FindAll(tokens) == SelectSeq(tokens, LAMBDA t : t \in Addrs)

\* ','.join(ip_addresses)
Join(parts) == [kind |-> "str", parts |-> parts]

\* the str ''
EmptyStr == [kind |-> "str", parts |-> << >>]

\* s.split(','): the empty str splits to ['']
Split(s) == IF s.parts = << >> THEN <<"">> ELSE s.parts

\* a Python list of addresses
PyList(parts) == [kind |-> "list", parts |-> parts]

\* UserDefinedApp._process_ips; ips is [type |-> "NoneType"] or
\* [type |-> "str", tokens |-> ...].  raised = IpAddressNotFoundError.
ProcessIps(ips) ==
    LET ip_addresses == IF ips.type = "str" THEN FindAll(ips.tokens) ELSE << >>
    IN  IF ip_addresses = << >>
        THEN [raised |-> TRUE, value |-> EmptyStr]
        ELSE [raised |-> FALSE, value |-> Join(ip_addresses)]

\* UserDefinedApp.__init__
NewApp(app_name) == [name |-> app_name, members |-> << >>, member_uuids |-> {}]

\* UserDefinedApp.add_member
AddMember(app, member_name, member_ip) ==
    LET res == ProcessIps(member_ip)
        member_info == [name |-> member_name,
                        ip_address |-> IF res.raised THEN EmptyStr ELSE res.value,
                        turbo_oid |-> NoneVal]
    IN  IF member_info \in Range(app.members)
        THEN app
        ELSE [app EXCEPT !.members = Append(@, member_info)]

\* list.remove(x): drops the first element equal to x
RECURSIVE ListRemove(_, _)
ListRemove(s, x) ==
    IF s = << >> THEN << >>
    ELSE IF Head(s) = x THEN Tail(s)
    ELSE <<Head(s)>> \o ListRemove(Tail(s), x)

\* UserDefinedApp.del_member
DelMember(members, member) == ListRemove(members, member)

\* the loop of remove_members_without_matches over member_copy[i..]
RECURSIVE RemoveLoop(_, _, _)
RemoveLoop(member_copy, i, members) ==
    IF i > Len(member_copy) THEN members
    ELSE IF member_copy[i].turbo_oid = NoneVal
         THEN RemoveLoop(member_copy, i + 1, DelMember(members, member_copy[i]))
         ELSE RemoveLoop(member_copy, i + 1, members)

\* Mutant: the loop runs over the live list by position instead of over a copy
RECURSIVE RemoveLive(_, _)
RemoveLive(members, i) ==
    IF i > Len(members) THEN members
    ELSE IF members[i].turbo_oid = NoneVal
         THEN RemoveLive(DelMember(members, members[i]), i + 1)
         ELSE RemoveLive(members, i + 1)

RemoveMembersLiveIteration(members) == RemoveLive(members, 1)

\* UserDefinedApp.remove_members_without_matches
RemoveMembersWithoutMatches(members) == RemoveLoop(members, 1, members)

\* UserDefinedApp._prep_app_topo_dto; list(set) has no specified order, the
\* payload's staticConnections is kept as the set
PrepAppTopoDto(app) ==
    [displayName |-> app.name, staticConnections |-> app.member_uuids]

\* UserDefinedApp.create_appl_topo: the request it sends
CreateApplTopo(app) ==
    [method |-> "POST", uuid |-> NoneVal, dto |-> PrepAppTopoDto(app)]

\* UserDefinedApp.update_appl_topo: the request it sends
UpdateApplTopo(app, uuid) ==
    [method |-> "PUT", uuid |-> uuid, dto |-> PrepAppTopoDto(app)]

-----------------------------------------------------------------------------
(* parse_csv_into_apps *)

\* index of the application named n in app_dict, 0 when absent
AppIndex(apps, n) ==
    IF \E i \in 1..Len(apps) : apps[i].name = n
    THEN CHOOSE i \in 1..Len(apps) : apps[i].name = n
    ELSE 0

\* row.get('entity_ip')
RowGetIp(row) ==
    IF "entity_ip" \in DOMAIN row
    THEN [type |-> "str", tokens |-> row["entity_ip"]]
    ELSE [type |-> "NoneType"]

\* row['entity_name'] raises KeyError
RowRaises(row) == row["app_name"] # "" /\ "entity_name" \notin DOMAIN row

\* one iteration of the loop of parse_csv_into_apps (no KeyError)
ParseCsvRow(apps, row, pfx) ==
    IF row["app_name"] = "" THEN apps
    ELSE LET app_name == pfx \o row["app_name"]
             i == AppIndex(apps, app_name)
             apps1 == IF i = 0 THEN Append(apps, NewApp(app_name)) ELSE apps
             j == IF i = 0 THEN Len(apps1) ELSE i
         IN  [apps1 EXCEPT ![j] = AddMember(@, row["entity_name"], RowGetIp(row))]

\* the row dicts read_csv returns under a field map with the given keys:
\* one entry per key, and never a blank application name
RowDicts(keys, ipFields) ==
    {[k \in keys |-> CASE k = "app_name" -> a
                       [] k = "entity_name" -> n
                       [] OTHER -> ip] :
        a \in CsvAppNames, n \in CsvEntityNames, ip \in ipFields}

-----------------------------------------------------------------------------
(* match_apps_to_turbo_vms *)

\* Mutant: names compared without .lower()
VmMatchesCaseSensitive(member, vm, mip) ==
    IF mip
    THEN /\ vm.name = member.name
         /\ Range(Split(member.ip_address)) \cap Range(vm.ip_address) # {}
    ELSE vm.name = member.name

\* the condition under which the loop body assigns and breaks, for one vm
VmMatches(member, vm, mip) ==
    IF mip
    THEN /\ Lower(vm.name) = Lower(member.name)
         /\ Range(Split(member.ip_address)) \cap Range(vm.ip_address) # {}
    ELSE Lower(vm.name) = Lower(member.name)

\* for vm in turbo_vms, from index i: the member after the loop
RECURSIVE VmLoop(_, _, _, _)
VmLoop(member, vms, i, mip) ==
    IF i > Len(vms) THEN member
    ELSE IF VmMatches(member, vms[i], mip)
         THEN [member EXCEPT !.ip_address = PyList(vms[i].ip_address),
                             !.turbo_oid = vms[i].uuid]
         ELSE VmLoop(member, vms, i + 1, mip)

\* Mutant: the uuid is not added to member_uuids
MatchMemberNoAdd(app, m, vms, mip) ==
    [app EXCEPT !.members[m] = VmLoop(app.members[m], vms, 1, mip)]

\* the body of "for member in app.members" for member m of app
MatchMember(app, m, vms, mip) ==
    LET member == VmLoop(app.members[m], vms, 1, mip)
    IN  [app EXCEPT !.members[m] = member,
                    !.member_uuids = IF member.turbo_oid = NoneVal
                                     THEN @ ELSE @ \cup {member.turbo_oid}]

\* the first member position at or after <<a, m>>, <<Len(apps) + 1, 1>> at the end
RECURSIVE SeekMember(_, _, _)
SeekMember(apps, a, m) ==
    IF a > Len(apps) THEN <<Len(apps) + 1, 1>>
    ELSE IF m <= Len(apps[a].members) THEN <<a, m>>
    ELSE SeekMember(apps, a + 1, 1)

-----------------------------------------------------------------------------
(* make_apps_thru_atm *)

\* {app['displayName']: app['uuid'] for app in ...}: a later entry replaces
\* an earlier one of the same name
RECURSIVE DictOfDefs(_)
DictOfDefs(defs) ==
    IF defs = << >> THEN << >>
    ELSE LET d == defs[Len(defs)]
             rest == DictOfDefs(SubSeq(defs, 1, Len(defs) - 1))
         IN  [n \in DOMAIN rest \cup {d.displayName} |->
                 IF n = d.displayName THEN d.uuid ELSE rest[n]]

\* Mutant: always create
WriteForCreateOnly(app, cur) == CreateApplTopo(app)

\* the request the loop body sends for app, after pruning
WriteFor(app, cur) ==
    IF app.name \in DOMAIN cur
    THEN UpdateApplTopo(app, cur[app.name])
    ELSE CreateApplTopo(app)

\* Mutant: no application is skipped
SkippedNever(app) == FALSE

\* "if not app.member_uuids": the application is skipped
Skipped(app) == app.member_uuids = {}

-----------------------------------------------------------------------------
(* The run from parse_csv_into_apps on: main, lines 483-489 *)

\* key sets of ENTITY_FIELD_MAP that pass _check_headers and read_csv
FieldKeySets == {{"app_name", "entity_name", "entity_ip"},
                 {"app_name", "entity_name"},
                 {"app_name", "entity_ip"}}

\* _check_headers: entity_ip must be mapped when MATCH_IP is true
CheckHeaders(keys, mip) == mip => "entity_ip" \in keys

\* the lists get_turbo_vms can return: distinct uuids, any names and addresses
Inventories ==
    {[i \in 1..Len(f) |-> [uuid |-> VmUuids[i], name |-> f[i][1],
                           ip_address |-> f[i][2]]] :
        f \in SeqsUpTo(VmRecords, MaxVMs)}

\* displayNames of the definitions the platform may hold
DefNames == {"AppA", "T-AppA"}

\* the lists conn.request('topologydefinitions') can return
DefLists ==
    {[i \in 1..Len(f) |-> [displayName |-> f[i], uuid |-> DefUuids[i]]] :
        f \in SeqsUpTo(DefNames, MaxDefs)}

\* the variables of get_csv_data, where the run does not use them
CsvIdle ==
    /\ file_downloaded = TRUE
    /\ outcome = "found"
    /\ csv_rows = << >>
    /\ data = << >>
    /\ ri = 1

\* the variables of get_turbo_vms, where the run does not use them
FetchIdle ==
    /\ details = << >>
    /\ uuids = << >>
    /\ step = 1
    /\ start = 0
    /\ end = 0
    /\ vm_list = << >>
    /\ window = << >>
    /\ wi = 1
    /\ calls = << >>

Init ==
    /\ pc = "parse"
    /\ match_ip \in BOOLEAN
    /\ prefix \in Prefixes
    /\ field_keys \in FieldKeySets
    /\ CheckHeaders(field_keys, match_ip)
    /\ csv_data = << >>
    /\ row_count = 1
    /\ app_dict = << >>
    /\ parsed_apps = << >>
    /\ turbo_vms = << >>
    /\ mpos = <<1, 1>>
    /\ current_apps = << >>
    /\ definitions = << >>
    /\ ai = 1
    /\ requests = << >>
    /\ CsvIdle
    /\ FetchIdle

\* parse_csv_into_apps: one iteration, on the next row of csv_data
ParseRow ==
    /\ pc = "parse"
    /\ row_count <= MaxRows
    /\ \E row \in RowDicts(field_keys, RunIpFields) :
          /\ row_count' = row_count + 1
          /\ IF RowRaises(row)
             THEN /\ pc' = "raised"
                  /\ UNCHANGED app_dict
             ELSE /\ pc' = "parse"
                  /\ app_dict' = ParseCsvRow(app_dict, row, prefix)
    /\ UNCHANGED <<cfgVars, csv_data, parsed_apps, matchVars, topoVars>>
    /\ UNCHANGED <<csvVars, fetchVars>>

\* parse_csv_into_apps: csv_data is exhausted, app_dict is returned
ReturnApps ==
    /\ pc = "parse"
    /\ parsed_apps' = app_dict
    /\ pc' = "fetch"
    /\ UNCHANGED <<cfgVars, csv_data, row_count, app_dict, matchVars, topoVars>>
    /\ UNCHANGED <<csvVars, fetchVars>>

\* main: turbo_vms = get_turbo_vms(...), then match_apps_to_turbo_vms starts
GetTurboVms ==
    /\ pc = "fetch"
    /\ \E vms \in Inventories : turbo_vms' = vms
    /\ mpos' = SeekMember(app_dict, 1, 1)
    /\ pc' = IF mpos'[1] > Len(app_dict) THEN "topo" ELSE "match"
    /\ UNCHANGED <<cfgVars, parseVars, topoVars>>
    /\ UNCHANGED <<csvVars, fetchVars>>

\* match_apps_to_turbo_vms: one member
MatchStep ==
    /\ pc = "match"
    /\ app_dict' = [app_dict EXCEPT ![mpos[1]] =
                       MatchMember(@, mpos[2], turbo_vms, match_ip)]
    /\ mpos' = SeekMember(app_dict', mpos[1], mpos[2] + 1)
    /\ pc' = IF mpos'[1] > Len(app_dict) THEN "topo" ELSE "match"
    /\ UNCHANGED <<cfgVars, csv_data, row_count, parsed_apps, turbo_vms, topoVars>>
    /\ UNCHANGED <<csvVars, fetchVars>>

\* make_apps_thru_atm: current_apps is built from the platform's list
FetchDefinitions ==
    /\ pc = "topo"
    /\ \E defs \in DefLists : definitions' = defs
    /\ current_apps' = DictOfDefs(definitions')
    /\ ai' = 1
    /\ pc' = IF app_dict = << >> THEN "done" ELSE "reconcile"
    /\ UNCHANGED <<cfgVars, parseVars, matchVars, requests>>
    /\ UNCHANGED <<csvVars, fetchVars>>

\* the for loop moves to the next application, or the function returns
NextApp ==
    /\ ai' = ai + 1
    /\ pc' = IF ai + 1 > Len(app_dict) THEN "done" ELSE "reconcile"

\* make_apps_thru_atm: an application with no resolved id is skipped
ReconcileSkip ==
    /\ pc = "reconcile"
    /\ Skipped(app_dict[ai])
    /\ NextApp
    /\ UNCHANGED <<cfgVars, parseVars, matchVars, current_apps, definitions,
                   requests>>
    /\ UNCHANGED <<csvVars, fetchVars>>

\* make_apps_thru_atm: prune, then update or create; the request may raise
ReconcileWrite ==
    /\ pc = "reconcile"
    /\ ~Skipped(app_dict[ai])
    /\ app_dict' = [app_dict EXCEPT ![ai].members = RemoveMembersWithoutMatches(@)]
    /\ requests' = Append(requests, WriteFor(app_dict'[ai], current_apps))
    /\ \/ NextApp
       \/ pc' = "aborted" /\ UNCHANGED ai
    /\ UNCHANGED <<cfgVars, csv_data, row_count, parsed_apps, matchVars,
                   current_apps, definitions>>
    /\ UNCHANGED <<csvVars, fetchVars>>

Next ==
    \/ ParseRow
    \/ ReturnApps
    \/ GetTurboVms
    \/ MatchStep
    \/ FetchDefinitions
    \/ ReconcileSkip
    \/ ReconcileWrite

Spec == Init /\ [][Next]_vars

-----------------------------------------------------------------------------
(* Properties of the run from parse_csv_into_apps on *)

Matched(member) == member.turbo_oid # NoneVal

MatchedIds(app) == {app.members[i].turbo_oid : i \in 1..Len(app.members)} \ {NoneVal}

RequestsFor(name) == {k \in 1..Len(requests) : requests[k].dto.displayName = name}

DefinitionIds(name) ==
    {definitions[k].uuid : k \in {j \in 1..Len(definitions) :
                                     definitions[j].displayName = name}}

\* C1: every write is for an application with a matched member, no
\* application is written twice, a write is a PUT to the id of an existing
\* definition of that name when there is one and a POST otherwise, and when
\* make_apps_thru_atm returns every application with a matched member has
\* exactly one write.
C1_CreateOrUpdate ==
    /\ \A k \in 1..Len(requests) :
          LET r == requests[k]
              ids == DefinitionIds(r.dto.displayName)
          IN  /\ RequestsFor(r.dto.displayName) = {k}
              /\ \E a \in 1..Len(app_dict) :
                    /\ app_dict[a].name = r.dto.displayName
                    /\ MatchedIds(app_dict[a]) # {}
              /\ IF ids # {}
                 THEN r.method = "PUT" /\ r.uuid \in ids
                 ELSE r.method = "POST" /\ r.uuid = NoneVal
    /\ pc = "done" =>
          \A a \in 1..Len(app_dict) :
             MatchedIds(app_dict[a]) # {} =>
                Cardinality(RequestsFor(app_dict[a].name)) = 1

\* C1 witness: a finished pass that issued an update and a create
C1_Witness ==
    /\ pc = "done"
    /\ \E j, k \in 1..Len(requests) :
          requests[j].method = "PUT" /\ requests[k].method = "POST"

\* C2: no payload has an empty staticConnections, and an application whose
\* resolved-id set is empty has no write.
C2_NoEmptyWrite ==
    /\ \A k \in 1..Len(requests) : requests[k].dto.staticConnections # {}
    /\ \A a \in 1..Len(app_dict) :
          app_dict[a].member_uuids = {} => RequestsFor(app_dict[a].name) = {}

\* C2 witness: a finished pass that skipped one application and wrote another
C2_Witness ==
    /\ pc = "done"
    /\ requests # << >>
    /\ \E a \in 1..Len(app_dict) : app_dict[a].member_uuids = {}

\* the addresses of a member as ingested
CsvAddrs(member) == {x \in Range(member.ip_address.parts) : x \in Addrs}

\* the strategy's rule, for a member as ingested and an inventory VM
Rule(orig, vm) ==
    /\ Lower(orig.name) = Lower(vm.name)
    /\ match_ip => CsvAddrs(orig) \cap Range(vm.ip_address) # {}

\* member m of application a has been through the loop over turbo_vms
Processed(a, m) ==
    \/ pc = "topo"
    \/ pc = "match" /\ (a < mpos[1] \/ (a = mpos[1] /\ m < mpos[2]))

\* C3: a processed member holds the uuid and the addresses of the first
\* inventory VM satisfying the rule, and is as ingested when there is none.
C3_FirstMatch ==
    \A a \in 1..Len(app_dict) : \A m \in 1..Len(app_dict[a].members) :
       Processed(a, m) =>
          LET orig == parsed_apps[a].members[m]
              mem == app_dict[a].members[m]
              S == {i \in 1..Len(turbo_vms) : Rule(orig, turbo_vms[i])}
          IN  IF S = {}
              THEN mem = orig /\ mem.turbo_oid = NoneVal
              ELSE LET f == CHOOSE i \in S : \A j \in S : i <= j
                   IN  /\ mem.turbo_oid = turbo_vms[f].uuid
                       /\ mem.ip_address = PyList(turbo_vms[f].ip_address)
                       /\ mem.name = orig.name

\* C3 witness: Name+IP matching is over; one member took the second VM
\* although the first has its name, under another case, and one member with
\* no address stayed unmatched although a VM has its name
C3_Witness ==
    /\ pc = "topo"
    /\ match_ip
    /\ Len(turbo_vms) >= 2
    /\ \E a \in 1..Len(app_dict) : \E m \in 1..Len(app_dict[a].members) :
          /\ app_dict[a].members[m].turbo_oid = turbo_vms[2].uuid
          /\ Lower(turbo_vms[1].name) = Lower(app_dict[a].members[m].name)
          /\ turbo_vms[2].name # app_dict[a].members[m].name
    /\ \E a \in 1..Len(app_dict) : \E m \in 1..Len(app_dict[a].members) :
          /\ app_dict[a].members[m].turbo_oid = NoneVal
          /\ app_dict[a].members[m].ip_address = EmptyStr
          /\ \E i \in 1..Len(turbo_vms) :
                Lower(turbo_vms[i].name) = Lower(app_dict[a].members[m].name)

\* C4: in every state an application's member_uuids is the set of turbo_oid
\* values of its matched members, and the staticConnections of every request
\* is the set of ids of the members its application keeps after pruning.
C4_ResolvedIds ==
    /\ \A a \in 1..Len(app_dict) : app_dict[a].member_uuids = MatchedIds(app_dict[a])
    /\ \A k \in 1..Len(requests) : \A a \in 1..Len(app_dict) :
          app_dict[a].name = requests[k].dto.displayName =>
             /\ \A m \in 1..Len(app_dict[a].members) : Matched(app_dict[a].members[m])
             /\ requests[k].dto.staticConnections = MatchedIds(app_dict[a])

\* C4 witness: a request was sent for an application that lost a member to
\* pruning
C4_Witness ==
    \E k \in 1..Len(requests) : \E a \in 1..Len(app_dict) :
       /\ app_dict[a].name = requests[k].dto.displayName
       /\ Len(app_dict[a].members) < Len(parsed_apps[a].members)
       /\ Cardinality(requests[k].dto.staticConnections) >= 1

\* C8: on every member list of the run, remove_members_without_matches keeps
\* exactly the matched members in their order, and applied to its own result
\* it changes nothing; the members of a written application are all matched.
C8_Prune ==
    \A a \in 1..Len(app_dict) :
       LET ms == app_dict[a].members
           once == RemoveMembersWithoutMatches(ms)
       IN  /\ once = SelectSeq(ms, Matched)
           /\ RemoveMembersWithoutMatches(once) = once
           /\ RequestsFor(app_dict[a].name) # {} => once = ms

\* C8 witness: a written application that pruning shortened
C8_Witness ==
    \E a \in 1..Len(app_dict) :
       /\ RequestsFor(app_dict[a].name) # {}
       /\ Len(app_dict[a].members) < Len(parsed_apps[a].members)
       /\ app_dict[a].members # << >>

-----------------------------------------------------------------------------
(* get_csv_data, DifCsvReader.read_csv and parse_csv_into_apps: main, 479-484 *)

\* the column an ENTITY_FIELD_MAP key is mapped to
ColumnOf(k) == CASE k = "app_name" -> "Application"
                 [] k = "entity_name" -> "Name"
                 [] OTHER -> "IP"

\* DifCsvReader.entity_headers for a map with the given keys
EntityHeaders(keys) == [k \in keys |-> ColumnOf(k)]

\* key sets of ENTITY_FIELD_MAP that pass _check_headers
AllFieldKeySets == FieldKeySets \cup {{"entity_name", "entity_ip"}}

\* the headers a downloaded file may have
HeaderSets == {{"Application", "Name", "IP"}, {"Application", "Name"},
               {"Application", "IP"}, {"Name", "IP"}}

\* the rows csv.DictReader yields for a file with the given header
FileRows(header) ==
    {[c \in header |-> CASE c = "Application" -> a
                         [] c = "Name" -> n
                         [] OTHER -> ip] :
        a \in {""} \cup CsvAppNames, n \in CsvEntityNames, ip \in CsvIpFields}

\* Mutant: CsvFileNotFoundError is not caught
AfterDownloadNoRetry(o) == IF o = "found" THEN "loop" ELSE "csv_error"

\* get_csv_data: where control goes after download_csv_data returned the file
\* ("found"), raised CsvFileNotFoundError ("notfound") or raised
\* CsvDownloadError ("error")
AfterDownload(o) == CASE o = "found" -> "loop"
                      [] o = "notfound" -> "sleep"
                      [] OTHER -> "csv_error"

\* DifCsvReader._process_entity_headers
ProcessEntityHeaders(row, eh) ==
    IF \E k \in DOMAIN eh : eh[k] \notin DOMAIN row
    THEN [raised |-> TRUE, entities |-> << >>]
    ELSE [raised |-> FALSE, entities |-> [k \in DOMAIN eh |-> row[eh[k]]]]

\* Mutant: a KeyError skips the row
ReadCsvRowSkipOnError(row, eh) ==
    IF "app_name" \notin DOMAIN eh \/ eh["app_name"] \notin DOMAIN row
    THEN [kind |-> "skip", entities |-> << >>]
    ELSE IF row[eh["app_name"]] = ""
    THEN [kind |-> "skip", entities |-> << >>]
    ELSE LET res == ProcessEntityHeaders(row, eh)
         IN  IF res.raised
             THEN [kind |-> "skip", entities |-> << >>]
             ELSE [kind |-> "append", entities |-> res.entities]

\* DifCsvReader.read_csv: the loop body on one row
ReadCsvRow(row, eh) ==
    IF "app_name" \notin DOMAIN eh \/ eh["app_name"] \notin DOMAIN row
    THEN [kind |-> "raise", entities |-> << >>]
    ELSE IF row[eh["app_name"]] = ""
    THEN [kind |-> "skip", entities |-> << >>]
    ELSE LET res == ProcessEntityHeaders(row, eh)
         IN  IF res.raised
             THEN [kind |-> "raise", entities |-> << >>]
             ELSE [kind |-> "append", entities |-> res.entities]

\* MATCH_IP is read by _check_headers, and then not before matching
IngestInit ==
    /\ pc = "loop"
    /\ match_ip = FALSE
    /\ prefix = NoneVal
    /\ field_keys \in AllFieldKeySets
    /\ CheckHeaders(field_keys, match_ip)
    /\ file_downloaded = FALSE
    /\ outcome = "none"
    /\ csv_rows = << >>
    /\ data = << >>
    /\ ri = 1
    /\ csv_data = << >>
    /\ row_count = 1
    /\ app_dict = << >>
    /\ parsed_apps = << >>
    /\ turbo_vms = << >>
    /\ mpos = <<1, 1>>
    /\ current_apps = << >>
    /\ definitions = << >>
    /\ ai = 1
    /\ requests = << >>
    /\ FetchIdle

\* get_csv_data: the loop body, one call of download_csv_data
Download ==
    /\ pc = "loop"
    /\ ~file_downloaded
    /\ \E o \in {"found", "notfound", "error"} :
          /\ outcome' = o
          /\ pc' = AfterDownload(o)
          /\ IF o = "found"
             THEN /\ file_downloaded' = TRUE
                  /\ \E h \in HeaderSets :
                        csv_rows' \in SeqsUpTo(FileRows(h), MaxRows)
             ELSE UNCHANGED <<file_downloaded, csv_rows>>
    /\ UNCHANGED <<data, ri, cfgVars, parseVars, matchVars, topoVars, fetchVars>>

\* get_csv_data: time.sleep(60) returns
Sleep ==
    /\ pc = "sleep"
    /\ pc' = "loop"
    /\ UNCHANGED <<cfgVars, parseVars, matchVars, topoVars, csvVars, fetchVars>>

\* get_csv_data: the loop ends and read_csv starts
StartRead ==
    /\ pc = "loop"
    /\ file_downloaded
    /\ data' = << >>
    /\ ri' = 1
    /\ pc' = "read"
    /\ UNCHANGED <<file_downloaded, outcome, csv_rows>>
    /\ UNCHANGED <<cfgVars, parseVars, matchVars, topoVars, fetchVars>>

\* read_csv: one row
ReadRow ==
    /\ pc = "read"
    /\ ri <= Len(csv_rows)
    /\ LET res == ReadCsvRow(csv_rows[ri], EntityHeaders(field_keys))
       IN  CASE res.kind = "raise" -> pc' = "key_error" /\ UNCHANGED <<data, ri>>
             [] res.kind = "skip" -> pc' = "read" /\ ri' = ri + 1 /\ UNCHANGED data
             [] OTHER -> /\ pc' = "read"
                         /\ ri' = ri + 1
                         /\ data' = Append(data, res.entities)
    /\ UNCHANGED <<file_downloaded, outcome, csv_rows>>
    /\ UNCHANGED <<cfgVars, parseVars, matchVars, topoVars, fetchVars>>

\* read_csv returns data; parse_csv_into_apps starts with APP_PREFIX
ReadReturn ==
    /\ pc = "read"
    /\ ri > Len(csv_rows)
    /\ csv_data' = data
    /\ prefix' \in Prefixes
    /\ row_count' = 1
    /\ pc' = "parse_data"
    /\ UNCHANGED <<app_dict, parsed_apps, match_ip, field_keys>>
    /\ UNCHANGED <<matchVars, topoVars, csvVars, fetchVars>>

\* parse_csv_into_apps: one iteration, on row row_count of csv_data
ParseDataRow ==
    /\ pc = "parse_data"
    /\ row_count <= Len(csv_data)
    /\ row_count' = row_count + 1
    /\ IF RowRaises(csv_data[row_count])
       THEN /\ pc' = "raised"
            /\ UNCHANGED app_dict
       ELSE /\ pc' = "parse_data"
            /\ app_dict' = ParseCsvRow(app_dict, csv_data[row_count], prefix)
    /\ UNCHANGED <<csv_data, parsed_apps>>
    /\ UNCHANGED <<cfgVars, matchVars, topoVars, csvVars, fetchVars>>

\* parse_csv_into_apps returns app_dict
ParseDataReturn ==
    /\ pc = "parse_data"
    /\ row_count > Len(csv_data)
    /\ parsed_apps' = app_dict
    /\ pc' = "parsed"
    /\ UNCHANGED <<csv_data, row_count, app_dict>>
    /\ UNCHANGED <<cfgVars, matchVars, topoVars, csvVars, fetchVars>>

\* main: the platform connection is opened and the platform is queried
ConnectPlatform ==
    /\ pc = "parsed"
    /\ pc' = "platform"
    /\ UNCHANGED <<cfgVars, parseVars, matchVars, topoVars, csvVars, fetchVars>>

IngestNext ==
    \/ Download
    \/ Sleep
    \/ StartRead
    \/ ReadRow
    \/ ReadReturn
    \/ ParseDataRow
    \/ ParseDataReturn
    \/ ConnectPlatform

SpecIngest == IngestInit /\ [][IngestNext]_vars

\* the run is one thread that always takes its next step
SpecIngestFair == SpecIngest /\ WF_vars(IngestNext)

-----------------------------------------------------------------------------
(* Properties of CSV acquisition and ingestion *)

\* the set of addresses in the IP field of a row dict
RowAddrSet(row) ==
    IF "entity_ip" \in DOMAIN row
    THEN {x \in Range(row["entity_ip"]) : x \in Addrs}
    ELSE {}

\* the rows of csv_data that reference the application named n
RowsOf(n) == {i \in 1..Len(csv_data) : prefix \o csv_data[i]["app_name"] = n}

\* C6: when parse_csv_into_apps has returned, the member count of every
\* application is the number of distinct (entity name, address set) pairs
\* among the rows that reference it.
C6_MemberCount ==
    pc = "parsed" =>
       \A a \in 1..Len(app_dict) :
          Len(app_dict[a].members) =
             Cardinality({<<csv_data[i]["entity_name"], RowAddrSet(csv_data[i])>> :
                             i \in RowsOf(app_dict[a].name)})

InLoop == pc \in {"loop", "sleep"}

\* C7: a download that ends "not found" leads to the wait and from there to
\* another attempt, however many attempts were made; the loop is left only
\* to read the file after the one successful download or by the connectivity
\* error, after which nothing runs and nothing was read, parsed or sent; and
\* a download that returns the file leads to read_csv.
C7_Acquisition ==
    /\ [][/\ (pc = "loop" /\ ~file_downloaded) =>
                /\ outcome' = "notfound" => pc' = "sleep" /\ ~file_downloaded'
                /\ outcome' = "found" => pc' = "loop" /\ file_downloaded'
                /\ outcome' = "error" => pc' = "csv_error"
          /\ pc = "sleep" => pc' = "loop" /\ ~file_downloaded'
          /\ file_downloaded => UNCHANGED <<outcome, csv_rows>>
          /\ (InLoop /\ ~InLoop') =>
                \/ pc' = "read" /\ file_downloaded /\ outcome = "found"
                \/ pc' = "csv_error" /\ outcome' = "error"
          /\ pc # "csv_error"]_vars
    /\ [](pc = "loop" /\ ~file_downloaded => ENABLED Download)
    /\ [](pc = "csv_error" =>
             /\ csv_rows = << >> /\ data = << >> /\ csv_data = << >>
             /\ app_dict = << >> /\ requests = << >>)
    /\ (InLoop /\ outcome = "found") ~> (pc = "read")

\* C7 witness: a download ended "not found", the wait is over and the next
\* download is about to be made
C7_Witness ==
    /\ pc = "loop"
    /\ outcome = "notfound"
    /\ ~file_downloaded

\* the application-name column is mapped and in the row
HasAppColumn(row) ==
    "app_name" \in field_keys /\ ColumnOf("app_name") \in DOMAIN row

BlankApp(row) == row[ColumnOf("app_name")] = ""

\* some mapped column is not in the row
MappedColumnAbsent(row) == \E k \in field_keys : ColumnOf(k) \notin DOMAIN row

\* a row that must abort ingestion: a non-blank application name and a
\* mapped column that is absent
AbortingRow(row) ==
    HasAppColumn(row) /\ ~BlankApp(row) /\ MappedColumnAbsent(row)

\* a row that ingestion keeps
KeptRow(row) ==
    HasAppColumn(row) /\ ~BlankApp(row) /\ ~MappedColumnAbsent(row)

\* the row dicts of the kept rows of a list of file rows
KeptDicts(rows) ==
    LET kept == SelectSeq(rows, KeptRow)
    IN  [i \in 1..Len(kept) |-> [k \in field_keys |-> kept[i][ColumnOf(k)]]]

\* C9: while rows are read, every row read so far was blank-named and
\* skipped or complete and kept, and data holds the kept ones; an aborting
\* row ends read_csv with an error, no list returned and no application
\* built; a list is returned only when no row aborts, and holds the kept rows.
C9_ReadCsv ==
    /\ pc = "read" =>
          /\ \A j \in 1..(ri - 1) :
                HasAppColumn(csv_rows[j]) /\ ~AbortingRow(csv_rows[j])
          /\ data = KeptDicts(SubSeq(csv_rows, 1, ri - 1))
    /\ pc = "key_error" =>
          /\ AbortingRow(csv_rows[ri]) \/ ~HasAppColumn(csv_rows[ri])
          /\ csv_data = << >> /\ app_dict = << >> /\ parsed_apps = << >>
    /\ pc \in {"parse_data", "raised", "parsed", "platform"} =>
          /\ \A j \in 1..Len(csv_rows) :
                HasAppColumn(csv_rows[j]) /\ ~AbortingRow(csv_rows[j])
          /\ csv_data = KeptDicts(csv_rows)

\* C9 witness: read_csv skipped a blank-named row and then raised on a row
\* with an application name and no column for a mapped key
C9_Witness ==
    /\ pc = "key_error"
    /\ ri = 2
    /\ HasAppColumn(csv_rows[1]) /\ BlankApp(csv_rows[1])
    /\ AbortingRow(csv_rows[2])

-----------------------------------------------------------------------------
(* get_turbo_vms, get_multiple_vm_details, get_individual_vm_details *)

\* A detail record of the platform is a function on its keys; "ip" stands
\* for the path aspects/virtualMachineAspect/ip.
RecordKinds == {"full", "noaspect", "noname"}

DetailRecord(id, kind) ==
    [k \in CASE kind = "full" -> {"uuid", "displayName", "ip"}
             [] kind = "noaspect" -> {"uuid", "displayName"}
             [] OTHER -> {"uuid"} |->
        CASE k = "uuid" -> id
          [] k = "displayName" -> "vm-" \o id
          [] OTHER -> <<"10.0.0.1">>]

\* get_vm_info; raised = KeyError
GetVmInfo(vm_details) ==
    IF "uuid" \notin DOMAIN vm_details \/ "displayName" \notin DOMAIN vm_details
    THEN [raised |-> TRUE, vm |-> << >>]
    ELSE [raised |-> FALSE,
          vm |-> [uuid |-> vm_details["uuid"],
                  name |-> vm_details["displayName"],
                  ip_address |-> IF "ip" \in DOMAIN vm_details
                                 THEN vm_details["ip"] ELSE << >>]]

\* s[a:b] of Python, for 0 <= a and 0 <= b
Slice(s, a, b) == SubSeq(s, a + 1, IF b < Len(s) THEN b ELSE Len(s))

\* get_multiple_vm_details: vm_list after a bulk call that succeeds, for the
\* records of the window from position i on
RECURSIVE BulkEntries(_, _, _)
BulkEntries(ids, recs, i) ==
    IF i > Len(ids) THEN << >>
    ELSE LET info == GetVmInfo(recs[ids[i]])
         IN  (IF info.raised THEN << >> ELSE <<info.vm>>)
                \o BulkEntries(ids, recs, i + 1)

\* Mutant: an identifier fetched alone contributes nothing
IndividualEntryNone(ok, rec) == << >>

\* get_individual_vm_details: what one identifier adds to vm_list; ok is
\* FALSE when conn.get_entities raised HTTP500Error
IndividualEntry(ok, rec) ==
    IF ~ok THEN << >>
    ELSE LET info == GetVmInfo(rec)
         IN  IF info.raised THEN << >> ELSE <<info.vm>>

\* get_turbo_vms: "while end < len(uuids)"
WhileCond == end < Len(uuids)

\* Mutant: the part after the last full window is never fetched
ElseCondNever == FALSE

\* get_turbo_vms: "if start < len(uuids)" of the else branch
ElseCond == start < Len(uuids)

\* the uuid_subset of the next detail request
UuidSubset == Slice(uuids, start, IF WhileCond THEN end ELSE Len(uuids))

\* a detail request is still to be made
HasWindow == WhileCond \/ ElseCond

\* after a window: the loop goes on, or the else branch ends the function
Advance ==
    IF WhileCond
    THEN start' = start + step /\ end' = end + step /\ pc' = "while"
    ELSE UNCHANGED <<start, end>> /\ pc' = "returned"

FetchInit ==
    /\ pc = "search"
    /\ step \in 1..MaxStep
    /\ start = 0
    /\ end = step
    /\ details = << >>
    /\ uuids = << >>
    /\ vm_list = << >>
    /\ window = << >>
    /\ wi = 1
    /\ calls = << >>
    /\ match_ip = FALSE
    /\ prefix = NoneVal
    /\ field_keys = {"app_name", "entity_name", "entity_ip"}
    /\ csv_data = << >>
    /\ row_count = 1
    /\ app_dict = << >>
    /\ parsed_apps = << >>
    /\ turbo_vms = << >>
    /\ mpos = <<1, 1>>
    /\ current_apps = << >>
    /\ definitions = << >>
    /\ ai = 1
    /\ requests = << >>
    /\ CsvIdle

\* get_turbo_vms: the compact listing, then "if not start", "if not end"
Search ==
    /\ pc = "search"
    /\ \E n \in 0..MaxIds :
          /\ uuids' = SubSeq(VmUuids, 1, n)
          /\ \E kinds \in [Range(uuids') -> RecordKinds] :
                details' = [id \in Range(uuids') |-> DetailRecord(id, kinds[id])]
          /\ end' = IF end = 0 THEN n ELSE end
    /\ start' = IF start = 0 THEN 0 ELSE start
    /\ pc' = "while"
    /\ UNCHANGED <<step, vm_list, window, wi, calls>>
    /\ UNCHANGED <<cfgVars, parseVars, matchVars, topoVars, csvVars>>

\* get_multiple_vm_details: the bulk call succeeds
BulkOk ==
    /\ pc = "while"
    /\ HasWindow
    /\ LET got == BulkEntries(UuidSubset, details, 1)
       IN  /\ vm_list' = vm_list \o got
           /\ calls' = Append(calls, [ids |-> UuidSubset, bulk_ok |-> TRUE,
                                      ind_ok |-> {}, result |-> got])
    /\ Advance
    /\ UNCHANGED <<details, uuids, step, window, wi>>
    /\ UNCHANGED <<cfgVars, parseVars, matchVars, topoVars, csvVars>>

\* get_multiple_vm_details: the bulk call raises HTTP500Error
BulkFails ==
    /\ pc = "while"
    /\ HasWindow
    /\ window' = UuidSubset
    /\ wi' = 1
    /\ calls' = Append(calls, [ids |-> UuidSubset, bulk_ok |-> FALSE,
                               ind_ok |-> {}, result |-> << >>])
    /\ pc' = "individual"
    /\ UNCHANGED <<details, uuids, step, start, end, vm_list>>
    /\ UNCHANGED <<cfgVars, parseVars, matchVars, topoVars, csvVars>>

\* get_individual_vm_details: one identifier of the window
Individual ==
    /\ pc = "individual"
    /\ wi <= Len(window)
    /\ \E ok \in BOOLEAN :
          LET got == IndividualEntry(ok, details[window[wi]])
              c == calls[Len(calls)]
          IN  /\ vm_list' = vm_list \o got
              /\ calls' = [calls EXCEPT ![Len(calls)] =
                              [c EXCEPT !.ind_ok = IF ok THEN @ \cup {window[wi]} ELSE @,
                                        !.result = @ \o got]]
    /\ wi' = wi + 1
    /\ pc' = "individual"
    /\ UNCHANGED <<details, uuids, step, start, end, window>>
    /\ UNCHANGED <<cfgVars, parseVars, matchVars, topoVars, csvVars>>

\* get_individual_vm_details returns; get_turbo_vms goes on
IndividualDone ==
    /\ pc = "individual"
    /\ wi > Len(window)
    /\ Advance
    /\ UNCHANGED <<details, uuids, step, vm_list, window, wi, calls>>
    /\ UNCHANGED <<cfgVars, parseVars, matchVars, topoVars, csvVars>>

\* get_turbo_vms: neither the loop nor the else branch has a window left
FetchReturn ==
    /\ pc = "while"
    /\ ~HasWindow
    /\ pc' = "returned"
    /\ UNCHANGED <<cfgVars, parseVars, matchVars, topoVars, csvVars, fetchVars>>

FetchNext ==
    \/ Search
    \/ BulkOk
    \/ BulkFails
    \/ Individual
    \/ IndividualDone
    \/ FetchReturn

SpecFetch == FetchInit /\ [][FetchNext]_vars

\* the run is one thread that always takes its next step
SpecFetchFair == SpecFetch /\ WF_vars(FetchNext)

-----------------------------------------------------------------------------
(* Properties of the inventory fetch *)

\* the consecutive windows of k identifiers of a listing
ExpectedWindows(ids, k) ==
    LET n == Len(ids)
        count == (n + k - 1) \div k
    IN  [j \in 1..count |->
            SubSeq(ids, (j - 1) * k + 1, IF j * k < n THEN j * k ELSE n)]

RECURSIVE ConcatResults(_, _)
ConcatResults(cs, i) ==
    IF i > Len(cs) THEN << >> ELSE cs[i].result \o ConcatResults(cs, i + 1)

\* the record of an identifier has the keys get_vm_info needs
WellFormed(id) ==
    "uuid" \in DOMAIN details[id] /\ "displayName" \in DOMAIN details[id]

\* the details of an identifier with a well-formed record
EntryOf(id) ==
    [uuid |-> id,
     name |-> details[id]["displayName"],
     ip_address |-> IF "ip" \in DOMAIN details[id] THEN details[id]["ip"] ELSE << >>]

EntriesOf(ids) == [i \in 1..Len(ids) |-> EntryOf(ids[i])]

\* the detail request i has been answered in full
Complete(i) == i < Len(calls) \/ pc # "individual"

\* every window's result but those of failed bulk calls is the details of
\* its well-formed records, and a returned fetch made every window's request
\* and returns the results in order
WindowsUnaffected ==
    /\ \A i \in 1..Len(calls) :
          calls[i].bulk_ok =>
             calls[i].result = EntriesOf(SelectSeq(calls[i].ids, WellFormed))
    /\ pc = "returned" =>
          /\ [i \in 1..Len(calls) |-> calls[i].ids] = ExpectedWindows(uuids, step)
          /\ vm_list = ConcatResults(calls, 1)

\* C5 as amended: after a failed bulk call the window's result is the
\* details, in window order, of the identifiers whose individual fetch
\* succeeded with a record holding uuid and displayName; the other windows
\* are unaffected and the fetch runs to its end.
C5_Fallback ==
    /\ WindowsUnaffected
    /\ \A i \in 1..Len(calls) :
          (~calls[i].bulk_ok /\ Complete(i)) =>
             LET in(id) == id \in calls[i].ind_ok /\ WellFormed(id)
             IN  calls[i].result = EntriesOf(SelectSeq(calls[i].ids, in))

\* C5 as stated: after a failed bulk call the window's result has the
\* details of every identifier whose individual fetch succeeded.
C5_Original ==
    /\ WindowsUnaffected
    /\ \A i \in 1..Len(calls) :
          (~calls[i].bulk_ok /\ Complete(i)) =>
             LET in(id) == id \in calls[i].ind_ok
             IN  [k \in 1..Len(calls[i].result) |-> calls[i].result[k].uuid]
                    = SelectSeq(calls[i].ids, in)

\* C5 witness: the fetch returned; after a window fetched in bulk one
\* window fell back and its identifier was fetched alone, the next fell back
\* and its identifier failed again, and the window after that was fetched in
\* bulk
C5_Witness ==
    /\ pc = "returned"
    /\ \E i \in 2..(Len(calls) - 2) :
          /\ calls[i - 1].bulk_ok /\ calls[i - 1].result # << >>
          /\ ~calls[i].bulk_ok /\ calls[i].result # << >>
          /\ ~calls[i + 1].bulk_ok
          /\ \E id \in Range(calls[i + 1].ids) : id \notin calls[i + 1].ind_ok
          /\ calls[i + 2].bulk_ok /\ calls[i + 2].result # << >>

\* C10: get_turbo_vms returns; the windows requested so far are the first
\* of the consecutive windows of step identifiers, none empty and none
\* longer than step; at the return all of them were requested, so that every
\* identifier is in exactly one, and vm_list is their results in order.
C10_Windows ==
    /\ <>(pc = "returned")
    /\ [](LET asked == [i \in 1..Len(calls) |-> calls[i].ids]
              want == ExpectedWindows(uuids, step)
          IN  /\ Len(asked) <= Len(want)
              /\ asked = SubSeq(want, 1, Len(asked))
              /\ \A i \in 1..Len(asked) :
                    asked[i] # << >> /\ Len(asked[i]) <= step
              /\ pc = "returned" =>
                    /\ asked = want
                    /\ \A u \in 1..Len(uuids) :
                          Cardinality({<<i, j>> \in (1..Len(asked)) \X (1..step) :
                             j <= Len(asked[i]) /\ asked[i][j] = uuids[u]}) = 1
                    /\ vm_list = ConcatResults(calls, 1))

\* C10 witness: a returned fetch of several windows, the last one short
C10_Witness ==
    /\ pc = "returned"
    /\ Len(calls) >= 2
    /\ Len(calls[Len(calls)].ids) < step
    /\ vm_list # << >>

=============================================================================
